---------------------------- MODULE Spec2Model ----------------------------
(***************************************************************************)
(* Model of src/pages/app.tsx: the App component's state (useState cells), *)
(* the line classifier setTypeOfLine, the edit handler setValue and the    *)
(* submit handler handleSubmit, which builds one Line record per input     *)
(* line and publishes the list to the rendering code through fastaReverse. *)
(*                                                                         *)
(* A JavaScript string is a sequence of one-character strings.             *)
(***************************************************************************)
EXTENDS Naturals, Sequences, FiniteSets

(***************************************************************************)
(* Bounds of the model.                                                    *)
(***************************************************************************)
\* longest input text of the single-submission specification SpecBuild
MaxLen == 5
\* number of sample texts the edit handler may type in the session Spec
NSamples == 5

(***************************************************************************)
(* Characters.                                                             *)
(***************************************************************************)
\* characters the input texts are drawn from: the two sigils, a nucleotide
\* letter, two whitespace characters, a carriage return and the newline
Chars == {">", ";", "A", " ", "\t", "\r", "\n"}

\* the characters the '.' of a JavaScript regular expression does not match
LineTerminators == {"\n", "\r"}

\* the character class [AUTGCautgc] of the sequence pattern
Nucleotides == {"A", "U", "T", "G", "C", "a", "u", "t", "g", "c"}

(***************************************************************************)
(* JavaScript string primitives used by the component.                     *)
(***************************************************************************)
\* index of the first occurrence of sep in s, 0 when there is none
RECURSIVE indexOf(_, _, _)
indexOf(s, sep, from) ==
  IF from > Len(s) THEN 0
  ELSE IF s[from] = sep THEN from
  ELSE indexOf(s, sep, from + 1)

\* String.prototype.split with a one-character separator
RECURSIVE split(_, _)

\* a split that drops an empty last segment
splitDroppingEmptyLast(s, sep) ==
  LET p == indexOf(s, sep, 1) IN
  IF p = 0 THEN <<s>>
  ELSE IF p = Len(s) THEN <<SubSeq(s, 1, p - 1)>>
  ELSE <<SubSeq(s, 1, p - 1)>> \o split(SubSeq(s, p + 1, Len(s)), sep)

split(s, sep) ==
  LET p == indexOf(s, sep, 1) IN
  IF p = 0 THEN <<s>>
  ELSE <<SubSeq(s, 1, p - 1)>> \o split(SubSeq(s, p + 1, Len(s)), sep)

\* String.prototype.slice(1)
slice1(s) == SubSeq(s, 2, Len(s))

\* '.*$' of a pattern without flags, from position from: every remaining
\* character is matched by '.', which excludes the line terminators
dotStarToEnd(s, from) == \A k \in from..Len(s) : s[k] \notin LineTerminators

(***************************************************************************)
(* setTypeOfLine                                                           *)
(***************************************************************************)
\* new RegExp('^[>]{1}.*$').test(line)
header(line) == Len(line) >= 1 /\ line[1] = ">" /\ dotStarToEnd(line, 2)

\* new RegExp('^[AUTGCautgc]+$').test(line)
seq(line) == Len(line) >= 1 /\ \A k \in 1..Len(line) : line[k] \in Nucleotides

\* new RegExp('^[;]{1}.*$').test(line)
com(line) == Len(line) >= 1 /\ line[1] = ";" /\ dotStarToEnd(line, 2)

\* new RegExp('^$').test(line)
sdl(line) == Len(line) = 0

\* the colour of the blank line's type object: undefined
NoColor == "undefined"

setTypeOfLine(line) ==
  IF header(line) THEN [name |-> "header", color |-> "teal"]
  ELSE IF seq(line) THEN [name |-> "sequence", color |-> "violet"]
  ELSE IF com(line) THEN [name |-> "comment", color |-> "purple"]
  ELSE IF sdl(line) THEN [name |-> "", color |-> NoColor]
  ELSE [name |-> "unknown", color |-> "grey"]

(***************************************************************************)
(* Component constants (useState cells that are never set).                *)
(***************************************************************************)
primerPrefix == <<"G", "C", "G", "G", "C", "G">>

primerSuffix ==
  <<"G", "T", "C", "G", "T", "A", "T", "C", "C", "A", "G",
    "T", "G", "C", "A", "G", "G", "G", "T", "C", "C", "G",
    "A", "G", "G", "T", "A", "T", "T", "C", "G", "C", "A",
    "C", "T", "G", "G", "A", "T", "A", "C", "G", "A", "C">>

(***************************************************************************)
(* The two collaborators of ../utils/utils, which is not part of the       *)
(* source at hand.  validateMirna is an unknown deterministic function of  *)
(* the line: its result for a line is chosen when the line is first        *)
(* validated and kept in oracle.  transformMiarnToPrimer is modelled by    *)
(* its contract: two segments derived from the sequence and the two        *)
(* literals, joined by a single '-'.                                       *)
(***************************************************************************)
\* the error lists a validation may return: none, or two errors in either
\* order, or the same error twice
ErrLists == {<<>>, <<"e1", "e2">>, <<"e2", "e1">>, <<"e1", "e1">>}

transformMiarnToPrimer(cline, prefix, suffix) ==
  suffix \o cline \o <<"-">> \o prefix \o cline

\* the value of customName before it is assigned: undefined
Undefined == <<"undefined">>

\* useState<Line[] | null>(): no document yet
NoDocument == [set |-> FALSE]

Document(ls) == [set |-> TRUE, doc |-> ls]

VARIABLES
  fasta,         \* useState: the text of the text area
  fastaReverse,  \* useState: the document handed to the rendering code
  loading,       \* useState: the loading flag
  pc,            \* handleSubmit's position: "idle", "loop" or "thrown"
  arrayValues,   \* handleSubmit: the lines of the submitted text
  lines,         \* handleSubmit: the records built so far
  line,          \* handleSubmit: number of lines the loop has processed
  calls,         \* the collaborator calls of the current submission, in order
  oracle,        \* the collaborators' results for the lines seen so far
  first          \* history: one earlier submission's text and document

vars == <<fasta, fastaReverse, loading, pc, arrayValues, lines, line,
          calls, oracle, first>>


(***************************************************************************)
(* The texts of the two specifications.                                    *)
(***************************************************************************)
\* every text of at most MaxLen characters
Texts == UNION {[1..n -> Chars] : n \in 0..MaxLen}

\* texts typed during a session: a labelled sequence, a sequence with a
\* trailing newline, a header separated from its sequence by a comment, two
\* sequences around a header, a line of one space, a lone header
SampleTexts ==
  << <<">", "A", " ", "A", "\n", "A">>,
     <<"A", "\n">>,
     <<">", "A", "\n", ";", "\n", "A">>,
     <<"A", "\n", ">", "A", "\n", "A", "A">>,
     <<" ">>,
     <<">", "A">> >>

SessionTexts ==
  {SampleTexts[k] : k \in {j \in 1..Len(SampleTexts) : j <= NSamples}}

(***************************************************************************)
(* handleSubmit, one loop iteration at a time.  The handler runs to        *)
(* completion before any other handler or any rendering: while pc is       *)
(* "loop" nothing else is enabled.                                         *)
(***************************************************************************)
\* a list that outlives the submission instead of a fresh one
staleLines == lines

\* const lines: Line[] = []
emptyLines == <<>>

\* a custom name that starts as the empty string
emptyCustomName == <<>>

\* let customName = undefined
initialCustomName == Undefined

\* a loop that stops one index early
loopDoneEarly == line + 1 >= Len(arrayValues)

\* the for-in loop has visited every index of arrayValues
loopDone == line = Len(arrayValues)

\* a transformation that does not look at the errors
newValueAlways(cline, errors) ==
  transformMiarnToPrimer(cline, primerPrefix, primerSuffix)

\* errors.length === 0 ? transformMiarnToPrimer(cline, ...) : cline
newValue(cline, errors) ==
  IF Len(errors) = 0
  THEN transformMiarnToPrimer(cline, primerPrefix, primerSuffix)
  ELSE cline

\* a custom name taken from the nearest header above, not from lines[k - 1]
customNameOfNearest(ls, k) ==
  LET hs == {j \in 1..Len(ls) : j <= k /\ ls[j].type.name = "header"} IN
  IF hs # {}
  THEN LET h == CHOOSE j \in hs : \A m \in hs : m <= j IN
       <<"_">> \o slice1(split(ls[h].value, " ")[1])
  ELSE <<>>

\* the custom name of the sequence at 0-based index k, given the records ls
\* built so far: ls[k] here is lines[k - 1] there
customNameOf(ls, k) ==
  IF k >= 1 /\ k <= Len(ls) /\ ls[k].type.name = "header"
  THEN <<"_">> \o slice1(split(ls[k].value, " ")[1])
  ELSE <<>>

\* calls in which the transformer runs whatever the validator returned
sequenceCallsAlways(k, cline, errors) ==
  <<[fn |-> "validateMirna", line |-> k, args |-> <<cline>>],
    [fn |-> "transformMiarnToPrimer", line |-> k,
     args |-> <<cline, primerPrefix, primerSuffix>>]>>

\* the collaborator calls of the iteration on a sequence line, in order
sequenceCalls(k, cline, errors) ==
  <<[fn |-> "validateMirna", line |-> k, args |-> <<cline>>]>>
  \o (IF Len(errors) = 0
      THEN <<[fn |-> "transformMiarnToPrimer", line |-> k,
              args |-> <<cline, primerPrefix, primerSuffix>>]>>
      ELSE <<>>)

\* what the collaborators do with one sequence line: the validator's error
\* list and, when it is empty, whether the transformer throws
Verdicts ==
  {[errors |-> e, throws |-> FALSE] : e \in ErrLists}
  \cup {[errors |-> <<>>, throws |-> TRUE]}

\* the collaborators are deterministic: a line seen before gets the same
\* verdict again
validateMirna(cline, v) ==
  /\ cline \in DOMAIN oracle => oracle[cline] = v
  /\ oracle' = [l \in DOMAIN oracle \cup {cline} |->
                  IF l = cline THEN v ELSE oracle[l]]

\* lines.push({type, customName, value: cline, errors})
push(ls, type, customName, value, errors) ==
  Append(ls, [type |-> type, customName |-> customName,
              value |-> value, errors |-> errors])

\* setLoading(true); const arrayValues = fasta.split('\n'); lines = []
handleSubmitBegin ==
  /\ pc \in {"idle", "thrown"}
  /\ loading' = TRUE
  /\ arrayValues' = split(fasta, "\n")
  /\ lines' = emptyLines
  /\ line' = 0
  /\ calls' = <<>>
  /\ pc' = "loop"
  /\ UNCHANGED <<fasta, fastaReverse, oracle, first>>

\* one iteration of the loop that runs to its push
handleSubmitLine ==
  /\ pc = "loop"
  /\ ~loopDone
  /\ LET cline == arrayValues[line + 1]
         type == setTypeOfLine(cline)
     IN IF type.name = "sequence"
        THEN \E v \in Verdicts :
               /\ ~v.throws
               /\ validateMirna(cline, v)
               /\ calls' = calls \o sequenceCalls(line, cline, v.errors)
               /\ lines' = push(lines, type, customNameOf(lines, line),
                                newValue(cline, v.errors), v.errors)
        ELSE /\ lines' = push(lines, type, initialCustomName, cline, <<>>)
             /\ UNCHANGED <<calls, oracle>>
  /\ line' = line + 1
  /\ UNCHANGED <<fasta, fastaReverse, loading, pc, arrayValues, first>>

\* one iteration in which transformMiarnToPrimer throws: there is no
\* try/catch, the exception leaves handleSubmit
handleSubmitThrow ==
  /\ pc = "loop"
  /\ ~loopDone
  /\ LET cline == arrayValues[line + 1]
         type == setTypeOfLine(cline)
     IN /\ type.name = "sequence"
        /\ \E v \in Verdicts :
             /\ v.throws
             /\ validateMirna(cline, v)
             /\ calls' = calls \o sequenceCalls(line, cline, v.errors)
  /\ pc' = "thrown"
  /\ UNCHANGED <<fasta, fastaReverse, loading, arrayValues, lines, line, first>>

\* setFastaReverse(lines); setLoading(false).  With snap, the history
\* variable first remembers this submission.
handleSubmitEnd(snap) ==
  /\ pc = "loop"
  /\ loopDone
  /\ fastaReverse' = Document(lines)
  /\ loading' = FALSE
  /\ pc' = "idle"
  /\ first' = IF snap /\ ~first.set
              THEN [set |-> TRUE, text |-> fasta, doc |-> lines]
              ELSE first
  /\ UNCHANGED <<fasta, arrayValues, lines, line, calls, oracle>>

\* setFasta(event.target.value)
setValue(value) ==
  /\ pc # "loop"
  /\ fasta' = value
  /\ UNCHANGED <<fastaReverse, loading, pc, arrayValues, lines, line,
                 calls, oracle, first>>

(***************************************************************************)
(* Specifications.                                                         *)
(***************************************************************************)
\* the component after its first render
Init ==
  /\ fasta = <<>>
  /\ fastaReverse = NoDocument
  /\ loading = FALSE
  /\ pc = "idle"
  /\ arrayValues = <<>>
  /\ lines = <<>>
  /\ line = 0
  /\ calls = <<>>
  /\ oracle = [l \in {} |-> l]
  /\ first = [set |-> FALSE]

\* a session: edits and submissions in any order
Next ==
  \/ \E value \in SessionTexts : setValue(value)
  \/ handleSubmitBegin
  \/ handleSubmitLine
  \/ \E snap \in BOOLEAN : handleSubmitEnd(snap)

Spec == Init /\ [][Next]_vars

\* the component with any text of at most MaxLen characters typed in
InitBuild ==
  /\ fasta \in Texts
  /\ fastaReverse = NoDocument
  /\ loading = FALSE
  /\ pc = "idle"
  /\ arrayValues = <<>>
  /\ lines = <<>>
  /\ line = 0
  /\ calls = <<>>
  /\ oracle = [l \in {} |-> l]
  /\ first = [set |-> FALSE]

\* submissions of that text
NextBuild ==
  \/ handleSubmitBegin
  \/ handleSubmitLine
  \/ handleSubmitEnd(FALSE)

SpecBuild == InitBuild /\ [][NextBuild]_vars

\* submissions of that text with a transformer that may throw
NextFail ==
  \/ handleSubmitBegin
  \/ handleSubmitLine
  \/ handleSubmitThrow
  \/ handleSubmitEnd(FALSE)

SpecFail == InitBuild /\ [][NextFail]_vars


(***************************************************************************)
(* Properties.  The lines of a text are counted and cut out here without   *)
(* split, so that a record is compared with the input itself.              *)
(***************************************************************************)
NewlineCount(text) == Cardinality({k \in 1..Len(text) : text[k] = "\n"})

\* the n-th line of text, n = 1 for the first
NthLine(text, n) ==
  LET idx == {k \in 1..Len(text) :
                /\ text[k] # "\n"
                /\ Cardinality({j \in 1..(k - 1) : text[j] = "\n"}) = n - 1}
  IN IF idx = {} THEN <<>>
     ELSE LET lo == CHOOSE k \in idx : \A j \in idx : k <= j
          IN [m \in 1..Cardinality(idx) |-> text[lo + m - 1]]

\* whitespace in the sense of the pattern \s, among the model's characters
Whitespace == {" ", "\t", "\r", "\n"}

\* the part of s before its first whitespace character
RECURSIVE FirstToken(_)
FirstToken(s) ==
  IF Len(s) = 0 \/ s[1] \in Whitespace THEN <<>>
  ELSE <<s[1]>> \o FirstToken(Tail(s))

\* C1: every built record whose input line starts with '>' has the header
\* type, whatever follows the '>'.
C1_LeadingGtIsHeader ==
  \A k \in 1..Len(lines) :
    LET raw == NthLine(fasta, k) IN
    (Len(raw) >= 1 /\ raw[1] = ">") => lines[k].type.name = "header"

\* C2: a sequence record right after a header record carries '_' followed
\* by the header's text without its '>' up to the first whitespace
\* character, be it a space or a tab.
C2_LabelIsFirstWhitespaceToken ==
  \A k \in 2..Len(lines) :
    (lines[k].type.name = "sequence" /\ lines[k - 1].type.name = "header")
    => lines[k].customName
         = <<"_">> \o FirstToken(Tail(NthLine(fasta, k - 1)))

\* C3: a sequence record that is first, or whose preceding record is not a
\* header, has the empty custom name, also when a header stands further up.
C3_EmptyLabelWithoutHeaderBefore ==
  \A k \in 1..Len(lines) :
    (/\ lines[k].type.name = "sequence"
     /\ (k = 1 \/ lines[k - 1].type.name # "header"))
    => lines[k].customName = <<>>

\* a header two lines above a sequence, something else in between
C3_Witness ==
  /\ Len(lines) >= 3
  /\ lines[1].type.name = "header"
  /\ lines[2].type.name \notin {"header", "sequence"}
  /\ lines[3].type.name = "sequence"
  /\ lines[3].customName = <<>>

\* record k of doc is built from the k-th line of text
Describes(doc, text, k) ==
  LET raw == NthLine(text, k) IN
  /\ doc[k].type = setTypeOfLine(raw)
  /\ doc[k].value \in
       {raw, transformMiarnToPrimer(raw, primerPrefix, primerSuffix)}

\* doc has one record for every line of text, in the order of the lines
CompleteDocumentOf(doc, text) ==
  /\ Len(doc) = NewlineCount(text) + 1
  /\ \A k \in 1..Len(doc) : Describes(doc, text, k)

\* C4: the published document has one record per line of the text, newlines
\* plus one, record k built from line k, whatever the validator returned;
\* while it is being built the records are those of the first lines.
C4_OneRecordPerLine ==
  /\ fastaReverse.set => CompleteDocumentOf(fastaReverse.doc, fasta)
  /\ pc = "loop" =>
       /\ Len(arrayValues) = NewlineCount(fasta) + 1
       /\ Len(lines) = line
       /\ line <= Len(arrayValues)
       /\ \A k \in 1..Len(lines) : Describes(lines, fasta, k)

\* a published document whose first line failed validation and whose last
\* record is the blank line after the final newline
C4_Witness ==
  /\ fastaReverse.set
  /\ Len(fasta) >= 2
  /\ fasta[Len(fasta)] = "\n"
  /\ Len(fastaReverse.doc) >= 2
  /\ Len(fastaReverse.doc[1].errors) > 0
  /\ fastaReverse.doc[Len(fastaReverse.doc)].type.name = ""

\* the calls made for the line with 0-based index k, by function name
CallsOf(k, fn) == {j \in 1..Len(calls) : calls[j].line = k /\ calls[j].fn = fn}

\* C5: for every processed line, a sequence line has exactly one validator
\* call, with the raw line; it has one transformer call exactly when its
\* errors are empty and none otherwise; other lines have no calls; the
\* validator call of a line precedes its transformer call and the calls of
\* a line precede those of the next line.
C5_CallsInOrder ==
  /\ \A j \in 1..Len(calls) :
       /\ calls[j].line < line
       /\ calls[j].args[1] = NthLine(fasta, calls[j].line + 1)
  /\ \A k \in 0..(Len(lines) - 1) :
       LET isSeq == seq(NthLine(fasta, k + 1)) IN
       /\ Cardinality(CallsOf(k, "validateMirna")) = IF isSeq THEN 1 ELSE 0
       /\ Cardinality(CallsOf(k, "transformMiarnToPrimer"))
            = IF isSeq /\ Len(lines[k + 1].errors) = 0 THEN 1 ELSE 0
  /\ \A i, j \in 1..Len(calls) :
       i < j =>
         \/ calls[i].line < calls[j].line
         \/ /\ calls[i].line = calls[j].line
            /\ calls[i].fn = "validateMirna"
            /\ calls[j].fn = "transformMiarnToPrimer"

\* a finished loop over a rejected sequence, then an accepted one
C5_Witness ==
  /\ pc = "loop"
  /\ loopDone
  /\ Len(lines) >= 2
  /\ lines[1].type.name = "sequence"
  /\ Len(lines[1].errors) > 0
  /\ lines[2].type.name = "sequence"
  /\ Len(lines[2].errors) = 0
  /\ Len(calls) = 3

\* C6: a sequence record whose validation returned errors keeps the raw
\* line as its value and the validator's list as its errors; one whose
\* validation returned none has the transformer's output as its value and
\* no errors.
C6_ValueAndErrors ==
  \A k \in 1..Len(lines) :
    LET raw == NthLine(fasta, k) IN
    lines[k].type.name = "sequence" =>
      /\ raw \in DOMAIN oracle
      /\ lines[k].errors = oracle[raw].errors
      /\ Len(oracle[raw].errors) > 0 => lines[k].value = raw
      /\ Len(oracle[raw].errors) = 0 =>
           lines[k].value
             = transformMiarnToPrimer(raw, primerPrefix, primerSuffix)

\* a document with a rejected sequence, its two errors the same, and an
\* accepted one
C6_Witness ==
  /\ fastaReverse.set
  /\ \E k \in 1..Len(fastaReverse.doc) :
       /\ fastaReverse.doc[k].errors = <<"e1", "e1">>
       /\ fastaReverse.doc[k].value = NthLine(fasta, k)
  /\ \E k \in 1..Len(fastaReverse.doc) :
       /\ fastaReverse.doc[k].type.name = "sequence"
       /\ fastaReverse.doc[k].errors = <<>>
       /\ fastaReverse.doc[k].value # NthLine(fasta, k)

\* C7: a record that is not a sequence has an undefined custom name, not
\* the empty string, the raw line as its value and no errors.
C7_OtherLinesUntouched ==
  \A k \in 1..Len(lines) :
    lines[k].type.name # "sequence" =>
      /\ lines[k].customName = Undefined
      /\ lines[k].customName # <<>>
      /\ lines[k].value = NthLine(fasta, k)
      /\ lines[k].errors = <<>>

\* a published document with an unknown line, a header and a blank line
C7_Witness ==
  /\ fastaReverse.set
  /\ \A n \in {"unknown", "header", ""} :
       \E k \in 1..Len(fastaReverse.doc) :
         /\ fastaReverse.doc[k].type.name = n
         /\ fastaReverse.doc[k].customName = Undefined

\* C8: once handleSubmit has been left, the submission has completed: the
\* loading flag is false again and the document is published with a record
\* for every line, the record of a line whose transformation failed keeping
\* the raw line and carrying an error.
C8_SubmissionCompletes ==
  (pc # "loop" /\ Len(arrayValues) > 0) =>
    /\ loading = FALSE
    /\ fastaReverse.set
    /\ Len(fastaReverse.doc) = Len(arrayValues)
    /\ \A k \in 1..Len(fastaReverse.doc) :
         (arrayValues[k] \in DOMAIN oracle /\ oracle[arrayValues[k]].throws)
         => /\ fastaReverse.doc[k].value = arrayValues[k]
            /\ Len(fastaReverse.doc[k].errors) > 0

\* C9: the exposed document changes only to the complete document of the
\* current text, and an edit of the text leaves it as it is.
C9_OnlyCompleteDocuments ==
  [][/\ fastaReverse' # fastaReverse =>
          /\ fastaReverse'.set
          /\ fasta' = fasta
          /\ CompleteDocumentOf(fastaReverse'.doc, fasta)
     /\ fasta' # fasta => fastaReverse' = fastaReverse]_vars

\* an earlier document is exposed while the loop is halfway through the
\* lines of an edited text
C9_Witness ==
  /\ fastaReverse.set
  /\ pc = "loop"
  /\ line >= 1
  /\ ~loopDone
  /\ ~CompleteDocumentOf(fastaReverse.doc, fasta)

\* C10: a submission of the text that an earlier submission had publishes a
\* document equal to the earlier one, whatever was submitted in between.
C10_SameTextSameDocument ==
  [][(pc = "loop" /\ pc' = "idle" /\ first.set /\ first.text = fasta)
     => fastaReverse' = Document(first.doc)]_vars

\* the loop has finished the remembered text again while the document of
\* another text is exposed
C10_Witness ==
  /\ first.set
  /\ first.text = fasta
  /\ pc = "loop"
  /\ loopDone
  /\ lines = first.doc
  /\ fastaReverse.set
  /\ fastaReverse.doc # first.doc
  /\ \E k \in 1..Len(lines) : lines[k].type.name = "sequence"

=============================================================================
